---- MODULE Spec2Model ----
\* A model of src/src/lib.rs: Lock (a spin-synchronised AtomicBool) and
\* Stack<T> (a bounded LIFO stack with one Lock pair per slot and one shared
\* AtomicUsize counter).  Every atomic operation of the source (SeqCst) is one
\* step of one thread; a spinning compare_exchange loop is a step that is
\* enabled only when its compare_exchange succeeds.
EXTENDS Integers, Sequences, FiniteSets

\* ---------------------------------------------------------------- bounds
\* CAPACITY is 100000 in the source (lib.rs:11); the model scales it down.
CAPACITY == 2
\* Number of threads sharing the stack.
NThreads == 2
\* Push and pop calls issued in total in the "free" and "seq" scenarios.
MaxPush == 3
MaxPop == 3

\* T::default() for the integer payload of the tests (lib.rs:87).
DefaultT == 0

Threads == 1..NThreads
Slots == 0..(CAPACITY - 1)
\* pushes (and then pops) per thread in the "barrier" and "test" scenarios:
\* T threads, M calls each, T * M <= CAPACITY
PerThread == CAPACITY \div NThreads
\* how the callers drive the stack:
\*   "seq"      calls never overlap (tests::test_stack, test_stack_threaded)
\*   "free"     any thread starts any call at any time
\*   "barrier"  every thread pushes PerThread values; when all those pushes
\*              have returned, every thread pops PerThread times
\*   "test"     every thread pushes PerThread values and then pops PerThread
\*              times, with no barrier (tests::test_stack_threaded_many)
\*   "race"     pushes overlap one another but no pop; a pop starts only
\*              when no call is in progress
Scenarios == {"seq", "free", "barrier", "test", "race"}

\* Option<T>: None and Some(v)
None == << >>
Some(v) == << v >>
\* the k-th push call passes the value k, so that each pushed value names
\* the push that passed it; a cell holds DefaultT or a pushed value
Payloads == 0..(MaxPush + CAPACITY)
Results == {None} \cup {Some(v) : v \in Payloads}

VARIABLES
    \* Stack fields
    data,            \* data[i]: payload of slot i
    reserved,        \* the AtomicUsize reservation counter
    safe_to_read,    \* safe_to_read[i]: state of the read Lock of slot i
    safe_to_write,   \* safe_to_write[i]: state of the write Lock of slot i
    \* per-thread position and locals
    pc,              \* where thread t stands in push or pop
    value,           \* push: the argument; pop: the payload read
    position,        \* push: the claimed index
    current_position,\* pop: the counter value loaded
    \* the callers and what they observed
    scenario,        \* how the callers drive the stack (fixed)
    npush,           \* push calls started
    npop,            \* pop calls started
    calls,           \* calls[t]: calls started by t ("barrier" and "test")
    published,       \* values whose push has returned
    popped,          \* popped[r]: how many pop calls returned r
    overlap          \* "race": the values of pushes that overlapped another

vars == << data, reserved, safe_to_read, safe_to_write, pc, value, position,
           current_position, scenario, npush, npop, calls, published, popped,
           overlap >>

shared == << data, reserved, safe_to_read, safe_to_write >>

\* ------------------------------------------------------------------ Lock
\* AtomicBool::compare_exchange(current, new): Ok when the state is `current`,
\* and then the state becomes `new`; Err leaves the state.
compare_exchange(state, current, new) ==
    [ok |-> (state = current), state |-> IF state = current THEN new ELSE state]

\* Lock::set_true: returns once compare_exchange(false, true) is Ok.
set_true_ready(state) == compare_exchange(state, FALSE, TRUE).ok
set_true_state(state) == compare_exchange(state, FALSE, TRUE).state

\* Lock::set_false: returns once compare_exchange(true, false) is Ok.
set_false_ready(state) == compare_exchange(state, TRUE, FALSE).ok
set_false_state(state) == compare_exchange(state, TRUE, FALSE).state

\* Lock::wait_for_true: returns once compare_exchange(true, false) is Ok.
wait_for_true_ready(state) == compare_exchange(state, TRUE, FALSE).ok
\* wait_for_true with a load in place of the compare_exchange: the flag is
\* observed true and not consumed
wait_for_true_state_NoConsume(state) == state
wait_for_true_state(state) == compare_exchange(state, TRUE, FALSE).state

\* Lock::is_true: one compare_exchange(true, false); the result is .is_err().
is_true(state) == ~ compare_exchange(state, TRUE, FALSE).ok
is_true_state(state) == compare_exchange(state, TRUE, FALSE).state

\* ----------------------------------------------------------------- Stack
\* Stack::new
Init ==
    /\ data = [i \in Slots |-> DefaultT]
    /\ reserved = 0
    /\ safe_to_read = [i \in Slots |-> FALSE]
    /\ safe_to_write = [i \in Slots |-> TRUE]
    /\ pc = [t \in Threads |-> "idle"]
    /\ value = [t \in Threads |-> DefaultT]
    /\ position = [t \in Threads |-> 0]
    /\ current_position = [t \in Threads |-> 0]
    /\ scenario \in Scenarios
    /\ npush = 0
    /\ npop = 0
    /\ calls = [t \in Threads |-> 0]
    /\ published = {}
    /\ popped = [r \in Results |-> 0]
    /\ overlap = {}

\* pop's read_position = current_position - 1
read_position(t) == current_position[t] - 1

AllIdle == \A t \in Threads : pc[t] = "idle"
\* thread t is inside push / inside pop
InPush(t) == pc[t] \in {"push_wait", "push_write", "push_publish"}
InPop(t) == pc[t] \in {"pop_load", "pop_try", "pop_cas", "pop_read",
                       "pop_release", "pop_restore"}
\* pops that returned a value
PopsSome == npop - popped[None] - Cardinality({t \in Threads : pc[t] \in
                {"pop_load", "pop_try", "pop_cas", "pop_read", "pop_release", "pop_restore"}})
\* the callers' contract: never more push calls started than CAPACITY plus the
\* pops that returned a value
Room == npush < CAPACITY + PopsSome

\* whether the callers let thread t start a push now
MayPush(t) ==
    /\ pc[t] = "idle"
    /\ Room
    /\ CASE scenario = "seq" -> AllIdle /\ npush < MaxPush
         [] scenario = "free" -> npush < MaxPush
         [] scenario = "race" ->
                npush < MaxPush /\ \A u \in Threads : ~ InPop(u)
         [] OTHER -> calls[t] < PerThread

\* whether the callers let thread t start a pop now
MayPop(t) ==
    /\ pc[t] = "idle"
    /\ CASE scenario = "seq" -> AllIdle /\ npop < MaxPop
         [] scenario = "free" -> npop < MaxPop
         [] scenario = "race" -> AllIdle /\ npop < MaxPop
         [] scenario = "barrier" ->
                /\ calls[t] >= PerThread /\ calls[t] < 2 * PerThread
                /\ \A u \in Threads : calls[u] >= PerThread
                /\ \A u \in Threads : pc[u] \notin {"push_wait", "push_write", "push_publish"}
         [] OTHER -> calls[t] >= PerThread /\ calls[t] < 2 * PerThread

\* the callers' bookkeeping when t starts a call
Called(t) ==
    calls' = IF scenario \in {"barrier", "test"}
             THEN [calls EXCEPT ![t] = @ + 1] ELSE calls

\* the "race" callers note the pushes that start while another push is in
\* progress, with the pushes they overlap
Overlapping(t) ==
    overlap' = IF scenario = "race" /\ \E u \in Threads : InPush(u)
               THEN overlap \cup {npush + 1}
                        \cup {value[u] : u \in {w \in Threads : InPush(w)}}
               ELSE overlap

\* PushClaim with reserved.load() in place of reserved.fetch_add(1): the
\* claim does not advance the counter.
PushClaim_LoadsCounter(t) ==
    /\ MayPush(t)
    /\ npush' = npush + 1
    /\ Called(t)
    /\ Overlapping(t)
    /\ value' = [value EXCEPT ![t] = npush + 1]
    /\ position' = [position EXCEPT ![t] = reserved]
    /\ reserved' = reserved
    /\ pc' = [pc EXCEPT ![t] = "push_wait"]
    /\ UNCHANGED << data, safe_to_read, safe_to_write, current_position,
                    scenario, npop, published, popped >>

\* push, line 102: position = reserved.fetch_add(1); the call passes npush + 1
PushClaim(t) ==
    /\ MayPush(t)
    /\ npush' = npush + 1
    /\ Called(t)
    /\ Overlapping(t)
    /\ value' = [value EXCEPT ![t] = npush + 1]
    /\ position' = [position EXCEPT ![t] = reserved]
    /\ reserved' = reserved + 1
    /\ pc' = [pc EXCEPT ![t] = "push_wait"]
    /\ UNCHANGED << data, safe_to_read, safe_to_write, current_position,
                    scenario, npop, published, popped >>

\* push, line 107: safe_to_write[position].wait_for_true()
PushWait(t) ==
    /\ pc[t] = "push_wait"
    /\ wait_for_true_ready(safe_to_write[position[t]])
    /\ safe_to_write' = [safe_to_write EXCEPT
                            ![position[t]] = wait_for_true_state(@)]
    /\ pc' = [pc EXCEPT ![t] = "push_write"]
    /\ UNCHANGED << data, reserved, safe_to_read, value, position,
                    current_position, scenario, npush, npop, calls,
                    published, popped >>
    /\ UNCHANGED overlap

\* push, lines 110-111: data[position] = value
PushWrite(t) ==
    /\ pc[t] = "push_write"
    /\ data' = [data EXCEPT ![position[t]] = value[t]]
    /\ pc' = [pc EXCEPT ![t] = "push_publish"]
    /\ UNCHANGED << reserved, safe_to_read, safe_to_write, value, position,
                    current_position, scenario, npush, npop, calls,
                    published, popped >>
    /\ UNCHANGED overlap

\* push, line 113: safe_to_read[position].set_true(), and the call returns
PushPublish(t) ==
    /\ pc[t] = "push_publish"
    /\ set_true_ready(safe_to_read[position[t]])
    /\ safe_to_read' = [safe_to_read EXCEPT ![position[t]] = set_true_state(@)]
    /\ published' = published \cup {value[t]}
    /\ pc' = [pc EXCEPT ![t] = "idle"]
    /\ value' = [value EXCEPT ![t] = DefaultT]
    /\ position' = [position EXCEPT ![t] = 0]
    /\ UNCHANGED << data, reserved, safe_to_write, current_position,
                    scenario, npush, npop, calls >>
    /\ UNCHANGED popped
    /\ UNCHANGED overlap

\* PopLoad with `continue` in place of `return None`: an empty stack makes
\* the pop spin instead of returning.
PopLoad_SpinsOnEmpty(t) ==
    IF reserved = 0
    THEN /\ pc' = [pc EXCEPT ![t] = "pop_load"]
         /\ UNCHANGED << popped, current_position >>
    ELSE /\ pc' = [pc EXCEPT ![t] = "pop_try"]
         /\ current_position' = [current_position EXCEPT ![t] = reserved]
         /\ UNCHANGED popped

\* pop, lines 122-126: one pass of the loop head.  current_position =
\* reserved.load(); zero returns None, otherwise the pass goes on to is_true.
PopLoad(t) ==
    IF reserved = 0
    THEN /\ pc' = [pc EXCEPT ![t] = "idle"]
         /\ popped' = [popped EXCEPT ![None] = @ + 1]
         /\ current_position' = [current_position EXCEPT ![t] = 0]
    ELSE /\ pc' = [pc EXCEPT ![t] = "pop_try"]
         /\ current_position' = [current_position EXCEPT ![t] = reserved]
         /\ UNCHANGED popped

\* pop is called, line 118, and makes its first pass of the loop head
PopCall(t) ==
    /\ MayPop(t)
    /\ npop' = npop + 1
    /\ Called(t)
    /\ PopLoad(t)
    /\ UNCHANGED << shared, value, position, scenario, npush, published >>
    /\ UNCHANGED overlap

\* pop, line 121: a later pass of the loop head, after `continue` or set_false
PopRetry(t) ==
    /\ pc[t] = "pop_load"
    /\ PopLoad(t)
    /\ UNCHANGED << shared, value, position, scenario, npush, npop, calls,
                    published >>
    /\ UNCHANGED overlap

\* pop, lines 127-136: if !safe_to_read[read_position].is_true() { continue }
PopTry(t) ==
    /\ pc[t] = "pop_try"
    /\ safe_to_read' = [safe_to_read EXCEPT ![read_position(t)] = is_true_state(@)]
    /\ pc' = [pc EXCEPT ![t] =
                IF ~ is_true(safe_to_read[read_position(t)])
                THEN "pop_load" ELSE "pop_cas"]
    /\ UNCHANGED << data, reserved, safe_to_write, value, position,
                    current_position, scenario, npush, npop, calls,
                    published, popped >>
    /\ UNCHANGED overlap

\* PopCas with compare_exchange(current_position, current_position): the
\* winning pop does not retreat the counter.
PopCas_KeepsCounter(t) ==
    /\ pc[t] = "pop_cas"
    /\ IF reserved = current_position[t]
       THEN /\ reserved' = current_position[t]
            /\ pc' = [pc EXCEPT ![t] = "pop_read"]
       ELSE /\ reserved' = reserved
            /\ pc' = [pc EXCEPT ![t] = "pop_restore"]
    /\ UNCHANGED << data, safe_to_read, safe_to_write, value, position,
                    current_position, scenario, npush, npop, calls,
                    published, popped >>
    /\ UNCHANGED overlap

\* pop, lines 137-154: reserved.compare_exchange(current_position, read_position)
PopCas(t) ==
    /\ pc[t] = "pop_cas"
    /\ IF reserved = current_position[t]
       THEN /\ reserved' = read_position(t)
            /\ pc' = [pc EXCEPT ![t] = "pop_read"]
       ELSE /\ reserved' = reserved
            /\ pc' = [pc EXCEPT ![t] = "pop_restore"]
    /\ UNCHANGED << data, safe_to_read, safe_to_write, value, position,
                    current_position, scenario, npush, npop, calls,
                    published, popped >>
    /\ UNCHANGED overlap

\* get_and_clean that clears the cell before it copies the payload
get_and_clean_ClearsFirst(index) == [data EXCEPT ![index] = DefaultT][index]

\* Stack::get_and_clean, lines 158-166: the payload is copied, not cleared
get_and_clean(index) == data[index]

\* PopRead with the clearing of get_and_clean (commented out in the source,
\* lines 161-164) in force: the vacated cell is reset to the default.
PopRead_Cleans(t) ==
    /\ pc[t] = "pop_read"
    /\ value' = [value EXCEPT ![t] = get_and_clean(read_position(t))]
    /\ data' = [data EXCEPT ![read_position(t)] = DefaultT]
    /\ pc' = [pc EXCEPT ![t] = "pop_release"]
    /\ UNCHANGED << reserved, safe_to_read, safe_to_write, position,
                    current_position, scenario, npush, npop, calls,
                    published, popped, overlap >>

\* pop, line 147: value = Some(self.get_and_clean(read_position))
PopRead(t) ==
    /\ pc[t] = "pop_read"
    /\ value' = [value EXCEPT ![t] = get_and_clean(read_position(t))]
    /\ pc' = [pc EXCEPT ![t] = "pop_release"]
    /\ UNCHANGED << shared, position, current_position, scenario, npush,
                    npop, calls, published, popped >>
    /\ UNCHANGED overlap

\* pop, lines 148-151: safe_to_write[read_position].set_true(); return value
PopRelease(t) ==
    /\ pc[t] = "pop_release"
    /\ set_true_ready(safe_to_write[read_position(t)])
    /\ safe_to_write' = [safe_to_write EXCEPT
                            ![read_position(t)] = set_true_state(@)]
    /\ popped' = [popped EXCEPT ![Some(value[t])] = @ + 1]
    /\ pc' = [pc EXCEPT ![t] = "idle"]
    /\ value' = [value EXCEPT ![t] = DefaultT]
    /\ current_position' = [current_position EXCEPT ![t] = 0]
    /\ UNCHANGED << data, reserved, safe_to_read, position, scenario, npush,
                    npop, calls, published >>
    /\ UNCHANGED overlap

\* pop, line 153: safe_to_read[read_position].set_false(), then the loop head
PopRestore(t) ==
    /\ pc[t] = "pop_restore"
    /\ set_false_ready(safe_to_read[read_position(t)])
    /\ safe_to_read' = [safe_to_read EXCEPT
                            ![read_position(t)] = set_false_state(@)]
    /\ pc' = [pc EXCEPT ![t] = "pop_load"]
    /\ UNCHANGED << data, reserved, safe_to_write, value, position,
                    current_position, scenario, npush, npop, calls,
                    published, popped >>
    /\ UNCHANGED overlap

Next ==
    \E t \in Threads :
        \/ PushClaim(t)
        \/ PushWait(t)
        \/ PushWrite(t)
        \/ PushPublish(t)
        \/ PopCall(t)
        \/ PopRetry(t)
        \/ PopTry(t)
        \/ PopCas(t)
        \/ PopRead(t)
        \/ PopRelease(t)
        \/ PopRestore(t)

Spec == Init /\ [][Next]_vars

\* ---------------------------------------------------------------- claims
\* the values pushed so far (the k-th push call passes k)
Pushed == 1..npush
\* the largest element of a non-empty set of integers
Max(S) == CHOOSE x \in S : \A y \in S : y <= x
\* published values that no pop has returned
Unpopped == {v \in published : popped[Some(v)] = 0}
\* what a reference LIFO stack returns to the next pop when calls never
\* overlap: the most recent push not yet popped, or None
Expected == IF Unpopped = {} THEN None ELSE Some(Max(Unpopped))
\* the payloads in the hands of a pop that has won the counter
Held == {data[read_position(t)] : t \in {u \in Threads : pc[u] = "pop_read"}}
            \cup {value[t] : t \in {u \in Threads : pc[u] = "pop_release"}}
\* published values that no pop has returned or taken
Unretrieved == Unpopped \ Held
\* the slot a push holds between wait_for_true and set_true
Writing(t, i) == pc[t] \in {"push_write", "push_publish"} /\ position[t] = i
\* the slot a pop is reading
Reading(t, i) == pc[t] = "pop_read" /\ read_position(t) = i

\* C1: when calls never overlap, every pop returns what a reference LIFO
\* stack returns: Some(v) for the most recent push not yet popped, None when
\* there is none.
C1_SequentialLifo ==
    [][scenario = "seq" =>
          \A r \in Results : popped'[r] = popped[r] + 1 => r = Expected]_vars

\* C1 witness: push(1), push(2) and three pops that returned 2, 1 and None.
C1_Witness ==
    /\ scenario = "seq"
    /\ popped[Some(2)] = 1 /\ popped[Some(1)] = 1 /\ popped[None] = 1

\* C2: no push holds slot i between acquiring its write-permission and
\* publishing it while a pop reads data[i] or another push holds slot i.
C2_ExclusiveSlotAccess ==
    \A t \in Threads : \A u \in Threads \ {t} : \A i \in Slots :
        ~ (Writing(t, i) /\ (Reading(u, i) \/ Writing(u, i)))

\* C3: pushes first, pops after a barrier: when the run is over, the pops
\* have returned every pushed value exactly once and nothing else.
C3_Conservation ==
    (scenario = "barrier" /\ ~ ENABLED Next) =>
        \A r \in Results :
            popped[r] = IF r \in {Some(v) : v \in Pushed} THEN 1 ELSE 0

\* C4: every thread pushes and then pops, with no barrier: no pop returns
\* None and no pop returns a payload that was not pushed.
C4_TestPopsPushedValues ==
    scenario = "test" =>
        \A r \in Results : popped[r] > 0 => r \in {Some(v) : v \in Pushed}

\* C5: no pushed value (one claim each) is returned by two pops.
C5_NoDoublePop ==
    \A v \in Pushed : popped[Some(v)] <= 1

\* C6: a pop returns None only when no published value is left that no pop
\* has returned or taken.
C6_NoFalseEmpty ==
    [][popped'[None] = popped[None] + 1 => Unretrieved = {}]_vars

\* C7: a pop reads a slot only when the payload in it was published by a
\* push that returned, and every payload a pop returned was published.
C7_PopReadsPublished ==
    /\ \A t \in Threads :
          pc[t] = "pop_read" => data[read_position(t)] \in published
    /\ \A v \in Payloads : popped[Some(v)] > 0 => v \in published

\* C8: every call returns: whenever a call is in progress some thread can
\* take a step.
C8_Termination ==
    AllIdle \/ ENABLED Next

\* C9: the counter stays within 0..CAPACITY.
C9_ReservedInRange ==
    reserved \in 0..CAPACITY

\* C9 witness: the stack is full again after a pop returned a value.
C9_Witness ==
    reserved = CAPACITY /\ PopsSome > 0

\* C10: a pass of pop's loop head that reads zero returns None in that step
\* and changes no field of the stack; a pop on a new stack returns None.
C10_EmptyPopReturnsNone ==
    [][/\ (reserved = 0 /\ npop' = npop + 1) =>
            (pc' = pc /\ popped'[None] = popped[None] + 1 /\ shared' = shared)
       /\ \A t \in Threads :
            (reserved = 0 /\ pc[t] = "pop_load" /\ pc'[t] # "pop_load") =>
                /\ pc'[t] = "idle"
                /\ popped'[None] = popped[None] + 1
                /\ shared' = shared
       /\ (npush = 0 /\ npop' = npop + 1) => popped'[None] = popped[None] + 1
      ]_vars

\* C10 witness: a pop on a new stack has returned None.
C10_Witness ==
    npush = 0 /\ popped[None] > 0

\* pops that have won the compare_exchange on the counter: those that
\* returned a value and those between the compare_exchange and the return
Wins == PopsSome + Cardinality({t \in Threads : pc[t] \in {"pop_read", "pop_release"}})

\* C11: the counter moves only by +1 with a push's claim and by -1 with a
\* pop's winning compare_exchange, so it always equals the claims made minus
\* the pops that won.
C11_CounterBalance ==
    /\ [](reserved = npush - Wins)
    /\ [][reserved' # reserved =>
            \/ reserved' = reserved + 1 /\ npush' = npush + 1
            \/ /\ reserved' = reserved - 1
               /\ \E t \in Threads : pc[t] = "pop_cas" /\ pc'[t] = "pop_read"
         ]_vars

\* C11 witness: a pop has lost the compare_exchange after another pop won
\* one, with claims still standing.
C11_Witness ==
    /\ \E t \in Threads : pc[t] = "pop_restore"
    /\ Wins > 0
    /\ reserved > 0

\* C12: the one attempt of is_true in pop's loop reports true (pop goes on to
\* the counter) exactly when the flag was true and is now false, and reports
\* false on a false flag, which it leaves false.
C12_IsTrueReportsObtained ==
    [][\A t \in Threads :
          (pc[t] = "pop_try" /\ pc'[t] # "pop_try") =>
             /\ (pc'[t] = "pop_cas") <=> (safe_to_read[read_position(t)] = TRUE)
             /\ safe_to_read'[read_position(t)] = FALSE
      ]_vars

\* C13: a pop that lost the compare_exchange can take its restore step, and
\* that step leaves the read flag of its slot set.
C13_LoserRestoresFlag ==
    /\ [](\A t \in Threads : pc[t] = "pop_restore" => ENABLED PopRestore(t))
    /\ [][\A t \in Threads :
            (pc[t] = "pop_restore" /\ pc'[t] # "pop_restore") =>
                /\ pc'[t] = "pop_load"
                /\ safe_to_read'[read_position(t)] = TRUE
         ]_vars

\* the payloads a pop has copied out of its slot and is about to return
Copied == {value[t] : t \in {u \in Threads : pc[u] = "pop_release"}}

\* C14: a push never overwrites a cell whose payload was published and has
\* been neither returned nor copied out by a pop.
C14_NoOverwriteOfUnreturned ==
    [][\A i \in Slots :
          data'[i] # data[i] => data[i] \notin (Unpopped \ Copied)]_vars

\* calls in the active phase of slot i: a push between wait_for_true and
\* set_true, a pop between its winning compare_exchange and set_true
Active(i) ==
    {t \in Threads : \/ Writing(t, i)
                     \/ pc[t] \in {"pop_read", "pop_release"} /\ read_position(t) = i}

\* C15: the two flags of a slot are never both true, and at most one call
\* holds the active phase of a slot.
C15_Handshake ==
    \A i \in Slots :
        /\ ~ (safe_to_write[i] /\ safe_to_read[i])
        /\ Cardinality(Active(i)) <= 1

\* C17: a blocking Lock operation returns only with its own transition of the
\* flag: wait_for_true and set_false take it from true to false, set_true
\* from false to true, and none of them can return from the other state.
C17_BlockingLockTransitions ==
    /\ [](\A t \in Threads :
            /\ (pc[t] = "push_wait" /\ ~ safe_to_write[position[t]])
                    => ~ ENABLED PushWait(t)
            /\ (pc[t] = "push_publish" /\ safe_to_read[position[t]])
                    => ~ ENABLED PushPublish(t)
            /\ (pc[t] = "pop_release" /\ safe_to_write[read_position(t)])
                    => ~ ENABLED PopRelease(t)
            /\ (pc[t] = "pop_restore" /\ ~ safe_to_read[read_position(t)])
                    => ~ ENABLED PopRestore(t))
    /\ [][\A t \in Threads :
            /\ (pc[t] = "push_wait" /\ pc'[t] # "push_wait") =>
                  safe_to_write[position[t]] /\ ~ safe_to_write'[position[t]]
            /\ (pc[t] = "push_publish" /\ pc'[t] # "push_publish") =>
                  ~ safe_to_read[position[t]] /\ safe_to_read'[position[t]]
            /\ (pc[t] = "pop_release" /\ pc'[t] # "pop_release") =>
                  /\ ~ safe_to_write[read_position(t)]
                  /\ safe_to_write'[read_position(t)]
            /\ (pc[t] = "pop_restore" /\ pc'[t] # "pop_restore") =>
                  /\ safe_to_read[read_position(t)]
                  /\ ~ safe_to_read'[read_position(t)]
         ]_vars

\* C17 witness: a push waits in wait_for_true on a flag that is false while a
\* pop that will raise it holds the slot.
C17_Witness ==
    \E t \in Threads : \E u \in Threads :
        /\ pc[t] = "push_wait" /\ ~ safe_to_write[position[t]]
        /\ pc[u] \in {"pop_read", "pop_release"}
        /\ read_position(u) = position[t]

\* C18: no step of a pop changes a cell, and a step of a push changes only
\* the cell at the index the push claimed, to the value pushed.
C18_StorageFrame ==
    [][/\ (\E t \in Threads : pc[t] \in {"pop_load", "pop_try", "pop_cas",
                                 "pop_read", "pop_release", "pop_restore"}
                              /\ pc'[t] # pc[t]) => data' = data
       /\ (npop' # npop) => data' = data
       /\ \A t \in Threads :
            (pc[t] \in {"push_wait", "push_write", "push_publish"}
                /\ pc'[t] # pc[t]) =>
                \A i \in Slots : data'[i] # data[i] =>
                    i = position[t] /\ data'[i] = value[t]
       /\ (npush' # npush) => data' = data
      ]_vars

\* C18 witness: a pop has returned a value and the cell it vacated still
\* holds that value.
C18_Witness ==
    \E i \in Slots :
        /\ data[i] # DefaultT
        /\ popped[Some(data[i])] > 0
        /\ reserved <= i

\* C19: when no call is in progress, the slots below the counter are
\* readable and not writable, the others writable and not readable.
C19_QuiescentFlags ==
    AllIdle =>
        \A i \in Slots :
            /\ safe_to_write[i] = (i >= reserved)
            /\ safe_to_read[i] = (i < reserved)

\* C16: pushes that overlap one another and no pop claim distinct indices,
\* each the counter value at its claim; the claim step is never blocked; all
\* of them return; the pops that follow, one at a time, return the values in
\* the reverse order of the claims.
C16_OverlappingPushes ==
    /\ [](scenario = "race" =>
            /\ \A t \in Threads : \A u \in Threads \ {t} :
                  (InPush(t) /\ InPush(u)) => position[t] # position[u]
            /\ \A t \in Threads : MayPush(t) => ENABLED PushClaim(t)
            /\ AllIdle \/ ENABLED Next)
    /\ [][scenario = "race" =>
            /\ (npush' = npush + 1) =>
                  \E t \in Threads :
                      /\ pc[t] = "idle" /\ pc'[t] = "push_wait"
                      /\ position'[t] = reserved
                      /\ reserved' = reserved + 1
            /\ \A r \in Results : popped'[r] = popped[r] + 1 => r = Expected
         ]_vars

\* C16 witness: pushes overlapped, and pops have returned each of them once.
C16_Witness ==
    /\ scenario = "race"
    /\ Cardinality(overlap) >= 2
    /\ \A v \in overlap : popped[Some(v)] = 1

====
